---- MODULE Spec2Model ----
(***************************************************************************)
(* The LINE webhook handler of marucamp: one invocation of `handler` for   *)
(* one user id, step by step (one step per awaited call), against the      *)
(* user's record in the Users table.  Other invocations for the same user  *)
(* that overlap this one appear through the store writes they perform.     *)
(* Spec follows that invocation; SpecParse applies the response parsers    *)
(* and the card composers to completions; SpecRace interleaves the store    *)
(* calls of several invocations for the user.                              *)
(***************************************************************************)
EXTENDS Bags, Integers, Sequences, FiniteSets, TLC

\* ------------------------------------------------------------------ bounds
NumFree   == 1  \* free texts besides the three trigger phrases
MaxEvents == 2  \* events in one webhook body
MaxBlocks == 4  \* numbered lines in one generated completion

MaxLines  == 4  \* lines of a completion drawn line by line
MaxYaychiBlocks == 5  \* numbered blocks of a completion in the bivouac format
NumBubbles == 2  \* bubbles of a card template
NumInvocations == 3  \* invocations for the user that overlap

\* ------------------------------------------------------------- JS values
\* A JavaScript value as the handler sees it: a string, undefined, or the
\* empty object {}.
Str(n) == <<"string", n>>
Num(n) == <<"number", n>>
Undefined == <<"undefined", 0>>
EmptyObj == <<"object", 0>>

TriggerCamp == Str(1)    \* line 76
TriggerYaychi == Str(2)  \* line 84
TriggerItems == Str(3)   \* line 92
Triggers == {TriggerCamp, TriggerYaychi, TriggerItems}
Texts == {Str(n) : n \in 1..(3 + NumFree)}

\* ------------------------------------------------------------ user store
NoState == "undefined"
WaitingStates ==
  { "awaiting_region_camp", "awaiting_date_camp", "awaiting_conditions_camp",
    "awaiting_prefecture_yaychi", "awaiting_conditions_yaychi",
    "awaiting_location_items", "awaiting_duration_items",
    "awaiting_conditions_items" }
Fields == {"region", "date", "prefecture", "location", "duration"}

\* An object literal, as the map from its keys to their values.
EmptyData == [f \in {} |-> Undefined]
Obj1(k, v) == [f \in {k} |-> v]
Obj2(k1, v1, k2, v2) == [f \in {k1, k2} |-> IF f = k1 THEN v1 ELSE v2]

\* JSON.stringify drops the keys whose value is undefined and keeps {} and
\* strings; the serialised text is represented by the key/value map it spells.
JSONstringify(obj) ==
  [f \in {g \in DOMAIN obj : obj[g] /= Undefined} |-> obj[f]]
\* JSON.parse of such a text gives back the object with exactly those keys.
JSONparse(s) == s
\* obj[key]: undefined for a key the object does not have.
Prop(obj, key) == IF key \in DOMAIN obj THEN obj[key] ELSE Undefined

\* The Users item of the user: absent (item = FALSE) or attributes userId,
\* state (optional) and data (optional, a JSON text).
NoItem == [item |-> FALSE, state |-> NoState, hasData |-> FALSE, data |-> EmptyData]
UserIdOnly == [item |-> TRUE, state |-> NoState, hasData |-> FALSE, data |-> EmptyData]

saveUserId(rec) == UserIdOnly
getState(rec) == IF rec.item THEN rec.state ELSE NoState
\* A putState that updated the state attribute and kept the others.
putState_update(rec, s) == [rec EXCEPT !.item = TRUE, !.state = s]
putState(rec, s) ==
  [item |-> TRUE, state |-> s, hasData |-> FALSE, data |-> EmptyData]
putStateWithData(rec, s, obj) ==
  [item |-> TRUE, state |-> s, hasData |-> TRUE, data |-> JSONstringify(obj)]
\* getStateData(uid): the whole object, {} when there is no data attribute.
getStateData(rec) ==
  IF rec.item /\ rec.hasData THEN JSONparse(rec.data) ELSE EmptyData
\* getStateData(uid, key): `if (!dataString) return {}` comes before the key
\* is looked at, so a record without data yields {} and not undefined.
getStateDataKey(rec, key) ==
  IF rec.item /\ rec.hasData THEN Prop(JSONparse(rec.data), key) ELSE EmptyObj
\* A clearState that removed the state attribute and kept the rest.
clearState_stateOnly(rec) == [rec EXCEPT !.item = TRUE, !.state = NoState]
clearState(rec) == UserIdOnly

\* ------------------------------------------------------------------ flows
\* A handler whose second and third trigger started each other's flow.
FirstState_swapped(text) ==
  CASE text = TriggerCamp -> "awaiting_region_camp"
    [] text = TriggerYaychi -> "awaiting_location_items"
    [] text = TriggerItems -> "awaiting_prefecture_yaychi"
    [] OTHER -> NoState

\* The trigger phrases and the first waiting state each one selects
\* (handler, lines 76-99).
FirstState(text) ==
  CASE text = TriggerCamp -> "awaiting_region_camp"
    [] text = TriggerYaychi -> "awaiting_prefecture_yaychi"
    [] text = TriggerItems -> "awaiting_location_items"
    [] OTHER -> NoState

\* The cases of the switch in handleStateMessage.
FirstStepStates ==
  {"awaiting_region_camp", "awaiting_prefecture_yaychi", "awaiting_location_items"}
SecondStepStates == {"awaiting_date_camp", "awaiting_duration_items"}
NonFinalStates == FirstStepStates \cup SecondStepStates
FinalStates ==
  {"awaiting_conditions_camp", "awaiting_conditions_yaychi", "awaiting_conditions_items"}

\* A handleStateMessage with a misspelt state name in one case.
NextState_misspelt(s) ==
  CASE s = "awaiting_region_camp" -> "awaiting_date_camp"
    [] s = "awaiting_date_camp" -> "awaiting_condition_camp"
    [] s = "awaiting_prefecture_yaychi" -> "awaiting_conditions_yaychi"
    [] s = "awaiting_location_items" -> "awaiting_duration_items"
    [] s = "awaiting_duration_items" -> "awaiting_conditions_items"
    [] OTHER -> NoState

\* The state each non-final case passes to putStateWithData.
NextState(s) ==
  CASE s = "awaiting_region_camp" -> "awaiting_date_camp"
    [] s = "awaiting_date_camp" -> "awaiting_conditions_camp"
    [] s = "awaiting_prefecture_yaychi" -> "awaiting_conditions_yaychi"
    [] s = "awaiting_location_items" -> "awaiting_duration_items"
    [] s = "awaiting_duration_items" -> "awaiting_conditions_items"
    [] OTHER -> NoState

\* The key the second-step cases read back with getStateData(uid, key).
KeyRead(s) == IF s = "awaiting_date_camp" THEN "region" ELSE "location"

\* A handleStateMessage that stored the inbound text alone, without the field
\* it read back.
NewData_textOnly(s, val, text) ==
  CASE s = "awaiting_region_camp" -> Obj1("region", text)
    [] s = "awaiting_date_camp" -> Obj1("date", text)
    [] s = "awaiting_prefecture_yaychi" -> Obj1("prefecture", text)
    [] s = "awaiting_location_items" -> Obj1("location", text)
    [] s = "awaiting_duration_items" -> Obj1("duration", text)
    [] OTHER -> EmptyData

\* The object literal each non-final case passes to putStateWithData; `val`
\* is what getStateData(uid, key) returned (campRegion, itemLocation).
NewData(s, val, text) ==
  CASE s = "awaiting_region_camp" -> Obj1("region", text)
    [] s = "awaiting_date_camp" -> Obj2("region", val, "date", text)
    [] s = "awaiting_prefecture_yaychi" -> Obj1("prefecture", text)
    [] s = "awaiting_location_items" -> Obj1("location", text)
    [] s = "awaiting_duration_items" -> Obj2("location", val, "duration", text)
    [] OTHER -> EmptyData

Flow(s) ==
  CASE s \in {"awaiting_region_camp", "awaiting_date_camp", "awaiting_conditions_camp"}
         -> "camp"
    [] s \in {"awaiting_prefecture_yaychi", "awaiting_conditions_yaychi"} -> "yaychi"
    [] s \in {"awaiting_location_items", "awaiting_duration_items",
              "awaiting_conditions_items"} -> "items"
    [] OTHER -> "none"

\* The arguments each final case passes to its terminal action; `dat` is
\* what getStateData(uid) returned.
TermArgs(s, dat, text) ==
  CASE s = "awaiting_conditions_camp"
         -> <<Prop(dat, "region"), Prop(dat, "date"), text>>
    [] s = "awaiting_conditions_yaychi" -> <<Prop(dat, "prefecture"), text>>
    [] s = "awaiting_conditions_items"
         -> <<Prop(dat, "location"), Prop(dat, "duration"), text>>
    [] OTHER -> <<>>

\* --------------------------------------------------------------- messages
\* An outbound message: which text or card of the source it is, and the
\* values interpolated into it.
Msg(kind, args) == [kind |-> kind, args |-> args]
Welcome == Msg("welcome", <<>>)                                  \* line 61
\* The fixed prompt sent when the conversation enters waiting state s.
Prompt(s) ==
  CASE s = "awaiting_region_camp" -> Msg("prompt_region", <<>>)               \* 80
    [] s = "awaiting_date_camp" -> Msg("prompt_date", <<>>)                   \* 122
    [] s = "awaiting_conditions_camp" -> Msg("prompt_conditions_camp", <<>>)  \* 131
    [] s = "awaiting_prefecture_yaychi" -> Msg("prompt_prefecture", <<>>)     \* 88
    [] s = "awaiting_conditions_yaychi" -> Msg("prompt_conditions_yaychi", <<>>) \* 146
    [] s = "awaiting_location_items" -> Msg("prompt_location", <<>>)          \* 96
    [] s = "awaiting_duration_items" -> Msg("prompt_duration", <<>>)          \* 161
    [] s = "awaiting_conditions_items" -> Msg("prompt_conditions_items", <<>>) \* 170
    [] OTHER -> Msg("none", <<>>)
Ack(flow, args) == Msg("ack_" \o flow, args)               \* lines 191, 245, 287
ZeroApology(flow) == Msg("zero_" \o flow, <<>>)            \* lines 208, 269, 304
ErrApology(flow) == Msg("error_" \o flow, <<>>)            \* lines 238, 280, 328
Found(flow, args) ==                                       \* lines 216, 275
  IF flow = "yaychi" THEN Msg("found_yaychi", <<args[1]>>) ELSE Msg("found_camp", <<>>)
FlexCard(flow, n) == Msg("flex_" \o flow, <<Num(n)>>)           \* lines 217, 276
DetailText == Msg("detail", <<>>)                          \* line 234, content
DetailFallback == Msg("detail_fallback", <<>>)             \* line 234, fallback
ItemList(n) == Msg("item_list", <<Num(n)>>)                     \* line 309
ItemResult(k) == Msg("item_result", <<Num(k)>>)                 \* line 323
GeneralAnswer == Msg("general_answer", <<>>)               \* line 351, content
GeneralFallback == Msg("general_fallback", <<>>)           \* line 351, fallback
GeneralError == Msg("general_error", <<>>)                 \* line 357
ApologyKinds ==
  { m.kind : m \in {ZeroApology(f) : f \in {"camp", "yaychi", "items"}}
                   \cup {ErrApology(f) : f \in {"camp", "yaychi", "items"}} }

\* ---------------------------------------------------------------- parsers
\* One line of a completion after trim(): `num` is the number of its leading
\* "N." prefix (0: no such prefix), `label` the bivouac label it contains,
\* `colon` whether it contains a ':', `id` names the rest of its text
\* (0: nothing follows the prefix).
Line(num, label, colon, id) ==
  [num |-> num, label |-> label, colon |-> colon, id |-> id]
StartsWith123(l) == l.num \in {1, 2, 3}

RECURSIVE parseResponse(_)
parseResponse(lines) ==
  IF lines = <<>> THEN <<>>
  ELSE LET l == Head(lines)
           rest == parseResponse(Tail(lines))
       IN IF StartsWith123(l) THEN <<[name |-> l.id]>> \o rest ELSE rest

\* The loop of parseYaychiResponse: `cur` is currentInfo, `acc` yaychiInfo.
NoInfo == [name |-> 0, spot |-> 0, description |-> 0]
RECURSIVE YaychiLoop(_, _, _)
YaychiLoop(lines, cur, acc) ==
  IF lines = <<>> THEN (IF cur.name /= 0 THEN Append(acc, cur) ELSE acc)
  ELSE LET l == Head(lines)
       IN IF StartsWith123(l)
          THEN YaychiLoop(Tail(lines), [NoInfo EXCEPT !.name = l.id],
                          IF cur.name /= 0 THEN Append(acc, cur) ELSE acc)
          ELSE IF l.label = "spot"
          THEN YaychiLoop(Tail(lines), [cur EXCEPT !.spot = l.id], acc)
          ELSE IF l.label = "desc"
          THEN YaychiLoop(Tail(lines), [cur EXCEPT !.description = l.id], acc)
          ELSE YaychiLoop(Tail(lines), cur, acc)
\* A parseYaychiResponse without the final slice(0, 3).
parseYaychiResponse_noSlice(lines) == YaychiLoop(lines, NoInfo, <<>>)
parseYaychiResponse(lines) ==
  LET all == YaychiLoop(lines, NoInfo, <<>>)
  IN SubSeq(all, 1, IF Len(all) < 3 THEN Len(all) ELSE 3)

RECURSIVE parseItemResponse(_)
parseItemResponse(lines) ==
  IF lines = <<>> THEN <<>>
  ELSE LET l == Head(lines)
           rest == parseItemResponse(Tail(lines))
       IN IF l.num > 0 /\ l.colon
          THEN <<[name |-> l.id, description |-> l.id]>> \o rest
          ELSE rest

\* The number of records the flow's parser makes of a completion.
Parsed(flow, lines) ==
  CASE flow = "camp" -> Len(parseResponse(lines))
    [] flow = "yaychi" -> Len(parseYaychiResponse(lines))
    [] OTHER -> Len(parseItemResponse(lines))

\* The completions the generation service returns here: k lines "j. name: text"
\* numbered 1..k (k = 0: an empty or absent content).
Completion(k) == [j \in 1..k |-> Line(j, "none", TRUE, j)]
Completions == {Completion(k) : k \in 0..MaxBlocks}
Min(a, b) == IF a < b THEN a ELSE b

\* A completion in the format the bivouac prompt asks for (lines 256-260): k
\* blocks numbered 1..k, each a numbered name line, a line with the spot label
\* and a line with the description label.  The texts are all different.
Block(j) ==
  << Line(j, "none", FALSE, 10 * j + 1), Line(0, "spot", TRUE, 10 * j + 2),
     Line(0, "desc", TRUE, 10 * j + 3) >>
RECURSIVE Blocks(_)
Blocks(k) == IF k = 0 THEN <<>> ELSE Blocks(k - 1) \o Block(k)

\* -------------------------------------------------------- card composers
\* The templates flex/camp.json and flex/yaychi.json are lists of bubbles; of
\* a bubble the model keeps the fields the composers write: the title text at
\* body.contents[0], the uri of the footer's button (camp), the two further
\* texts (bivouac).  Placeholder(i) is what bubble i holds in the template.
Placeholder(i) == 0 - i
CampTemplate ==
  [i \in 1..NumBubbles |-> [text |-> Placeholder(i), uri |-> Placeholder(i)]]
YaychiTemplate ==
  [i \in 1..NumBubbles |->
     [text |-> Placeholder(i), spot |-> Placeholder(i), description |-> Placeholder(i)]]

\* campInfo.forEach (lines 423-432) from index i on, on the bubbles t.
RECURSIVE CampForEach(_, _, _)
CampForEach(t, campInfo, i) ==
  IF i > Len(campInfo) THEN t
  ELSE LET camp == campInfo[i]
           named == IF i <= Len(t) THEN [t EXCEPT ![i].text = camp.name] ELSE t
           linked ==
             IF i <= Len(t) /\ "homepage_url" \in DOMAIN camp /\ camp.homepage_url /= 0
             THEN [named EXCEPT ![i].uri = camp.homepage_url] ELSE named
       IN CampForEach(linked, campInfo, i + 1)

\* yaychiInfo.forEach (lines 443-450)
RECURSIVE YaychiForEach(_, _, _)
YaychiForEach(t, yaychiInfo, i) ==
  IF i > Len(yaychiInfo) THEN t
  ELSE LET info == yaychiInfo[i]
       IN YaychiForEach(
            IF i <= Len(t)
            THEN [t EXCEPT ![i].text = info.name, ![i].spot = info.spot,
                           ![i].description = info.description]
            ELSE t,
            yaychiInfo, i + 1)

\* The composers write into JSON.parse(JSON.stringify(template)), a copy that
\* shares nothing with the import: `contents` is what the message carries,
\* `shared` what the imported template is afterwards.
createCampFlexMessage(shared, campInfo) ==
  [contents |-> CampForEach(shared, campInfo, 1), shared |-> shared]
\* A composer that wrote into the imported template itself.
createYaychiFlexMessage_noCopy(shared, yaychiInfo) ==
  [ contents |-> YaychiForEach(shared, yaychiInfo, 1),
    shared |-> YaychiForEach(shared, yaychiInfo, 1) ]
createYaychiFlexMessage(shared, yaychiInfo) ==
  [contents |-> YaychiForEach(shared, yaychiInfo, 1), shared |-> shared]

\* ------------------------------------------------- overlapping invocations
\* An invocation in its store phase: the awaited store call it is at, the text
\* of its event (undefined: a follow event), and what it has read.  The
\* invocations under way are a bag of these; which is which does not matter.
Started(first, t) == [pc |-> first, text |-> t, st |-> NoState, val |-> Undefined]
One(x) == SetToBag({x})

\* --------------------------------------------------------------- requests
FollowEvent == [type |-> "follow", mtype |-> "none", text |-> Undefined]
TextEvent(t) == [type |-> "message", mtype |-> "text", text |-> t]
ImageEvent == [type |-> "message", mtype |-> "image", text |-> Undefined]
UnfollowEvent == [type |-> "unfollow", mtype |-> "none", text |-> Undefined]
Events == {FollowEvent, ImageEvent, UnfollowEvent} \cup {TextEvent(t) : t \in Texts}
\* The events after the first of a batch are drawn from two kinds.
LaterEvents == {FollowEvent, TextEvent(TriggerCamp)}
EventLists ==
  {<<>>} \cup { <<first>> \o rest : first \in Events,
                 rest \in UNION {[1..n -> LaterEvents] : n \in 0..(MaxEvents - 1)} }
Signatures == {"valid", "invalid", "missing"}
\* An invocation's input: whether event.body is there, what the signature
\* header is with respect to the body, and the events the body holds.
Requests ==
  [body : {FALSE}, sig : Signatures, events : {<<>>}]
    \cup [body : {TRUE}, sig : Signatures, events : EventLists]
NoRequest == [body |-> FALSE, sig |-> "missing", events |-> <<>>]

Ret(code, body) == [statusCode |-> code, body |-> body]
Pending == Ret(0, "pending")   \* the invocation has not ended
Thrown == Ret(0, "exception")  \* the handler's promise rejected

\* ------------------------------------------------------------------ state
VARIABLES
  store,   \* the user's item in the Users table
  pc,      \* where the invocation is: "idle", an awaited call, or "done"
  req,     \* the invocation's event
  st,      \* `state`, as getState returned it
  val,     \* campRegion / itemLocation, as getStateData(uid, key) returned it
  dat,     \* campData / yaychiData / itemData, as getStateData(uid) returned it
  nrec,    \* the number of records the parser returned
  idx,     \* the item the loop of handleItemSuggestion is at
  content, \* the completion's content: "none" (no completion), "empty", "text"
  ret,     \* what the invocation returned
  log,     \* the calls the invocation has issued, in order
  solo,    \* no other invocation has written the item since this one began
  serial,  \* history: so far no other invocation wrote the item, no call failed
  turn0,   \* history: the item as it was when this invocation began (while serial)
  whole,   \* history: the item getState read held every field collected so far
  lines,      \* a completion's content, split into its lines
  fn,         \* the parser or composer applied last to it ("none": not yet)
  recs,       \* the records the parser returned
  card,       \* `contents` of the message the composer returned
  flexCamp,   \* the imported template of the camp card (line 5)
  flexYaychi, \* the imported template of the bivouac card (line 6)
  inv,        \* concurrent invocations for the user: each one's store phase
  last        \* history: the item the store write executed last has put

hvars ==
  <<store, pc, req, st, val, dat, nrec, idx, content, ret, log, solo, serial,
    turn0, whole>>
pvars == <<lines, fn, recs, card, flexCamp, flexYaychi>>
rvars == <<inv, last>>
vars == <<hvars, pvars, rvars>>
hist == <<solo, serial, turn0, whole>>
locals == <<st, val, dat, nrec, idx, content>>

\* A call the invocation issued: the operation, its argument (the item
\* written or read, or the message) and whether it succeeded.
\* The calls to the messaging and generation services succeed or fail; the
\* calls to the table are taken to succeed.
Call(op, arg, ok) == [op |-> op, arg |-> arg, ok |-> ok]
StoreWrites == {"saveUserId", "putState", "putStateWithData", "clearState"}
StoreReads == {"getState", "getStateData"}

e == req.events[1]
text == e.text

Init ==
  /\ store = NoItem
  /\ pc = "idle"
  /\ req = NoRequest
  /\ st = NoState
  /\ val = Undefined
  /\ dat = EmptyData
  /\ nrec = 0
  /\ idx = 0
  /\ content = "none"
  /\ ret = Pending
  /\ log = <<>>
  /\ solo = TRUE
  /\ serial = TRUE
  /\ turn0 = NoItem
  /\ whole = FALSE
  /\ lines = <<>>
  /\ fn = "none"
  /\ recs = <<>>
  /\ card = <<>>
  /\ flexCamp = CampTemplate
  /\ flexYaychi = YaychiTemplate
  /\ inv = EmptyBag
  /\ last = NoItem

\* ------------------------------------------------------------ the handler
\* A handler that only looked for the signature header.
SignatureOk_headerOnly(r) == r.sig /= "missing"

\* validateSignature(body, secret, signature) with a signature header present.
SignatureOk(r) == r.sig = "valid"

\* A handler that took the last event of the batch.
Entry_lastEvent(r) ==
  IF ~r.body THEN [pc |-> "done", ret |-> Ret(200, "no body")]
  ELSE IF ~SignatureOk(r)
  THEN [pc |-> "done", ret |-> Ret(401, "signature validation failed")]
  ELSE IF Len(r.events) = 0 THEN [pc |-> "done", ret |-> Ret(200, "no events")]
  ELSE IF r.events[Len(r.events)].type = "follow"
  THEN [pc |-> "follow_saveUserId", ret |-> Pending]
  ELSE IF r.events[Len(r.events)].type = "message"
          /\ r.events[Len(r.events)].mtype = "text"
  THEN [pc |-> "saveUserId", ret |-> Pending]
  ELSE [pc |-> "done", ret |-> Ret(200, "ignored")]

\* handler up to its first awaited call (lines 36-69): where it goes, and
\* what it returns when it returns at once.
Entry(r) ==
  IF ~r.body THEN [pc |-> "done", ret |-> Ret(200, "no body")]
  ELSE IF ~SignatureOk(r)
  THEN [pc |-> "done", ret |-> Ret(401, "signature validation failed")]
  ELSE IF Len(r.events) = 0 THEN [pc |-> "done", ret |-> Ret(200, "no events")]
  ELSE IF r.events[1].type = "follow" THEN [pc |-> "follow_saveUserId", ret |-> Pending]
  ELSE IF r.events[1].type = "message" /\ r.events[1].mtype = "text"
  THEN [pc |-> "saveUserId", ret |-> Pending]
  ELSE [pc |-> "done", ret |-> Ret(200, "ignored")]

Invoke ==
  /\ pc = "idle"
  /\ \E r \in Requests :
       /\ req' = r
       /\ pc' = Entry(r).pc
       /\ ret' = Entry(r).ret
  /\ log' = <<>>
  /\ solo' = TRUE
  /\ turn0' = IF serial THEN store ELSE NoItem
  /\ UNCHANGED <<pvars, rvars, store, locals, serial, whole>>

\* line 58
FollowSaveUserId ==
  /\ pc = "follow_saveUserId"
  /\ store' = saveUserId(store)
  /\ log' = Append(log, Call("saveUserId", store', TRUE))
  /\ pc' = "follow_reply"
  /\ UNCHANGED <<pvars, rvars, req, locals, ret, hist>>

\* lines 59-63: a reply that fails rejects the handler's promise
FollowReply ==
  /\ pc = "follow_reply"
  /\ \E ok \in BOOLEAN :
       /\ log' = Append(log, Call("reply", Welcome, ok))
       /\ ret' = IF ok THEN Ret(200, "OK") ELSE Thrown
  /\ pc' = "done"
  /\ UNCHANGED <<pvars, rvars, store, req, locals, hist>>

\* line 69
SaveUserId ==
  /\ pc = "saveUserId"
  /\ store' = saveUserId(store)
  /\ log' = Append(log, Call("saveUserId", store', TRUE))
  /\ pc' = "getState"
  /\ UNCHANGED <<pvars, rvars, req, locals, ret, hist>>

\* A handleStateMessage whose first-step cases replied before they wrote.
HandleStateMessageEntry_replyFirst(state) ==
  IF state \in FirstStepStates THEN "state_reply"
  ELSE IF state \in SecondStepStates THEN "getStateDataKey"
  ELSE IF state \in FinalStates THEN "getStateData"
  ELSE "clearState"

\* Where handleStateMessage goes first for `state` (lines 116-184).
HandleStateMessageEntry(state) ==
  IF state \in FirstStepStates THEN "putStateWithData"
  ELSE IF state \in SecondStepStates THEN "getStateDataKey"
  ELSE IF state \in FinalStates THEN "getStateData"
  ELSE "clearState"

\* Lines 74-109: the call awaited next once getState has returned `state`.
Route(state, t) ==
  IF state = NoState
  THEN (IF t \in Triggers THEN "putState" ELSE "general_generate")
  ELSE HandleStateMessageEntry(state)

\* The fields a flow has collected when the conversation waits in state s.
Collected(s) ==
  CASE s \in {"awaiting_date_camp"} -> {"region"}
    [] s = "awaiting_conditions_camp" -> {"region", "date"}
    [] s = "awaiting_conditions_yaychi" -> {"prefecture"}
    [] s = "awaiting_duration_items" -> {"location"}
    [] s = "awaiting_conditions_items" -> {"location", "duration"}
    [] OTHER -> {}
Whole(rec) ==
  /\ getState(rec) \in WaitingStates
  /\ \A f \in Collected(getState(rec)) : Prop(getStateData(rec), f) \in Texts

\* line 71
GetState ==
  /\ pc = "getState"
  /\ st' = getState(store)
  /\ log' = Append(log, Call("getState", Msg("state", <<>>), TRUE))
  /\ pc' = Route(st', text)
  /\ whole' = Whole(store)
  /\ UNCHANGED <<pvars, rvars, store, req, val, dat, nrec, idx, content, ret, solo, serial, turn0>>

\* lines 77, 85, 93
PutState ==
  /\ pc = "putState"
  /\ store' = putState(store, FirstState(text))
  /\ log' = Append(log, Call("putState", store', TRUE))
  /\ pc' = "menu_reply"
  /\ UNCHANGED <<pvars, rvars, req, locals, ret, hist>>

\* lines 78-82, 86-90, 94-98
MenuReply ==
  /\ pc = "menu_reply"
  /\ \E ok \in BOOLEAN :
       /\ log' = Append(log, Call("reply", Prompt(FirstState(text)), ok))
       /\ ret' = IF ok THEN Ret(200, "OK") ELSE Thrown
  /\ pc' = "done"
  /\ UNCHANGED <<pvars, rvars, store, req, locals, hist>>

\* lines 127, 166
GetStateDataKey ==
  /\ pc = "getStateDataKey"
  /\ val' = getStateDataKey(store, KeyRead(st))
  /\ log' = Append(log, Call("getStateData", Msg(KeyRead(st), <<>>), TRUE))
  /\ pc' = "putStateWithData"
  /\ UNCHANGED <<pvars, rvars, store, req, st, dat, nrec, idx, content, ret, hist>>

\* lines 119, 128, 143, 158, 167
PutStateWithData ==
  /\ pc = "putStateWithData"
  /\ store' = putStateWithData(store, NextState(st), NewData(st, val, text))
  /\ log' = Append(log, Call("putStateWithData", store', TRUE))
  /\ pc' = "state_reply"
  /\ UNCHANGED <<pvars, rvars, req, locals, ret, hist>>

\* lines 120-123, 129-132, 144-147, 159-162, 168-171
StateReply ==
  /\ pc = "state_reply"
  /\ \E ok \in BOOLEAN :
       /\ log' = Append(log, Call("reply", Prompt(NextState(st)), ok))
       /\ ret' = IF ok THEN Ret(200, "OK") ELSE Thrown
  /\ pc' = "done"
  /\ UNCHANGED <<pvars, rvars, store, req, locals, hist>>

\* lines 136, 151, 175
GetStateData ==
  /\ pc = "getStateData"
  /\ dat' = getStateData(store)
  /\ log' = Append(log, Call("getStateData", Msg("all", <<>>), TRUE))
  /\ pc' = "clearState"
  /\ UNCHANGED <<pvars, rvars, store, req, st, val, nrec, idx, content, ret, hist>>

\* lines 137, 152, 176 (a final state) and 181 (the default case)
ClearState ==
  /\ pc = "clearState"
  /\ store' = clearState(store)
  /\ log' = Append(log, Call("clearState", store', TRUE))
  /\ pc' = IF st \in FinalStates THEN "ack_reply" ELSE "general_generate"
  /\ UNCHANGED <<pvars, rvars, req, locals, ret, hist>>

\* ------------------------------------------------------- terminal actions
flow == Flow(st)
args == TermArgs(st, dat, text)
Query(kind, a) == Msg("query_" \o kind, a)

\* pushMessage (lines 463-476) pushes its text in pieces of 5000 characters,
\* one after the other; a call of it is one step and one entry of the log,
\* which succeeds when every piece was pushed.  The fixed texts are one piece.

\* lines 189-192, 243-246, 285-288: the acknowledgment, before the try block
AckReply ==
  /\ pc = "ack_reply"
  /\ \E ok \in BOOLEAN :
       /\ log' = Append(log, Call("reply", Ack(flow, args), ok))
       /\ pc' = IF ok THEN "generate" ELSE "done"
       /\ ret' = IF ok THEN ret ELSE Thrown
  /\ UNCHANGED <<pvars, rvars, store, req, locals, hist>>

\* What follows the parse (lines 207-216, 268-275, 303-309).
AfterParse(f, n) ==
  IF n = 0 THEN "zero_push" ELSE IF f = "items" THEN "list_push" ELSE "found_push"

\* lines 195-205, 249-266, 291-301: the first generation call and its parse
Generate ==
  /\ pc = "generate"
  /\ \E ok \in BOOLEAN, c \in Completions :
       /\ log' = Append(log, Call("generate", Query(flow, args), ok))
       /\ nrec' = IF ok THEN Parsed(flow, c) ELSE nrec
       /\ pc' = IF ok THEN AfterParse(flow, nrec') ELSE "catch_push"
  /\ UNCHANGED <<pvars, rvars, store, req, st, val, dat, idx, content, ret, hist>>

\* A terminal action without the `return` after the zero-records apology.
AfterZeroPush_noReturn == IF flow = "items" THEN "list_push" ELSE "found_push"

\* After the zero-records apology has been pushed: `return` (lines 209, 270, 305).
AfterZeroPush == "done"

\* lines 208, 269, 304
ZeroPush ==
  /\ pc = "zero_push"
  /\ \E ok \in BOOLEAN :
       /\ log' = Append(log, Call("push", ZeroApology(flow), ok))
       /\ pc' = IF ok THEN AfterZeroPush ELSE "catch_push"
       /\ ret' = IF ok /\ AfterZeroPush = "done" THEN Ret(200, "OK") ELSE ret
  /\ UNCHANGED <<pvars, rvars, store, req, locals, hist>>

\* lines 216, 275
FoundPush ==
  /\ pc = "found_push"
  /\ \E ok \in BOOLEAN :
       /\ log' = Append(log, Call("push", Found(flow, args), ok))
       /\ pc' = IF ok THEN "flex_push" ELSE "catch_push"
  /\ UNCHANGED <<pvars, rvars, store, req, locals, ret, hist>>

\* lines 213-217, 273-276: the card, then the detail query (camp) or the end
FlexPush ==
  /\ pc = "flex_push"
  /\ \E ok \in BOOLEAN :
       /\ log' = Append(log, Call("push", FlexCard(flow, nrec), ok))
       /\ pc' = IF ~ok THEN "catch_push"
                ELSE IF flow = "camp" THEN "detail_generate" ELSE "done"
       /\ ret' = IF ok /\ flow /= "camp" THEN Ret(200, "OK") ELSE ret
  /\ UNCHANGED <<pvars, rvars, store, req, locals, hist>>

\* lines 220-232
DetailGenerate ==
  /\ pc = "detail_generate"
  /\ \E ok \in BOOLEAN, c \in {"empty", "text"} :
       /\ log' = Append(log, Call("generate", Query("detail", <<Num(nrec)>>), ok))
       /\ content' = IF ok THEN c ELSE content
       /\ pc' = IF ok THEN "detail_push" ELSE "catch_push"
  /\ UNCHANGED <<pvars, rvars, store, req, st, val, dat, nrec, idx, ret, hist>>

\* line 234
DetailPush ==
  /\ pc = "detail_push"
  /\ \E ok \in BOOLEAN :
       /\ log' = Append(log, Call("push",
                   IF content = "text" THEN DetailText ELSE DetailFallback, ok))
       /\ pc' = IF ok THEN "done" ELSE "catch_push"
       /\ ret' = IF ok THEN Ret(200, "OK") ELSE ret
  /\ UNCHANGED <<pvars, rvars, store, req, st, val, dat, nrec, idx, content, hist>>

\* A loop over every parsed item, without the slice.
LoopCount_all(n) == n

\* items.slice(0, 3) (line 312): the items the loop visits.
LoopCount(n) == Min(n, 3)

\* lines 308-309
ListPush ==
  /\ pc = "list_push"
  /\ \E ok \in BOOLEAN :
       /\ log' = Append(log, Call("push", ItemList(nrec), ok))
       /\ pc' = IF ~ok THEN "catch_push"
                ELSE IF 1 <= LoopCount(nrec) THEN "item_generate" ELSE "done"
       /\ idx' = IF ok THEN 1 ELSE idx
       /\ ret' = IF pc' = "done" THEN Ret(200, "OK") ELSE ret
  /\ UNCHANGED <<pvars, rvars, store, req, st, val, dat, nrec, content, hist>>

\* lines 313-321: the completion's content is interpolated as it is
ItemGenerate ==
  /\ pc = "item_generate"
  /\ \E ok \in BOOLEAN :
       /\ log' = Append(log, Call("generate", Query("item", <<Num(idx)>>), ok))
       /\ pc' = IF ok THEN "item_push" ELSE "catch_push"
  /\ UNCHANGED <<pvars, rvars, store, req, st, val, dat, nrec, idx, content, ret, hist>>

\* line 323, and the loop's next round
ItemPush ==
  /\ pc = "item_push"
  /\ \E ok \in BOOLEAN :
       /\ log' = Append(log, Call("push", ItemResult(idx), ok))
       /\ idx' = IF ok THEN idx + 1 ELSE idx
       /\ pc' = IF ~ok THEN "catch_push"
                ELSE IF idx' <= LoopCount(nrec) THEN "item_generate" ELSE "done"
       /\ ret' = IF pc' = "done" THEN Ret(200, "OK") ELSE ret
  /\ UNCHANGED <<pvars, rvars, store, req, st, val, dat, nrec, content, hist>>

\* lines 236-239, 278-281, 326-329: the catch block's push is not guarded
CatchPush ==
  /\ pc = "catch_push"
  /\ \E ok \in BOOLEAN :
       /\ log' = Append(log, Call("push", ErrApology(flow), ok))
       /\ ret' = IF ok THEN Ret(200, "OK") ELSE Thrown
  /\ pc' = "done"
  /\ UNCHANGED <<pvars, rvars, store, req, locals, hist>>

\* --------------------------------------------------- handleGeneralMessage
\* lines 334-347
GeneralGenerate ==
  /\ pc = "general_generate"
  /\ \E ok \in BOOLEAN, c \in {"empty", "text"} :
       /\ log' = Append(log, Call("generate", Query("general", <<text>>), ok))
       /\ content' = IF ok THEN c ELSE content
       /\ pc' = IF ok THEN "general_reply" ELSE "general_catch_reply"
  /\ UNCHANGED <<pvars, rvars, store, req, st, val, dat, nrec, idx, ret, hist>>

\* A handleGeneralMessage that pushed its answer to the user.
GeneralReply_pushed ==
  /\ pc = "general_reply"
  /\ \E ok \in BOOLEAN :
       /\ log' = Append(log, Call("push",
                   IF content = "text" THEN GeneralAnswer ELSE GeneralFallback, ok))
       /\ pc' = IF ok THEN "done" ELSE "general_catch_reply"
       /\ ret' = IF ok THEN Ret(200, "OK") ELSE ret
  /\ UNCHANGED <<pvars, rvars, store, req, locals, hist>>

\* lines 349-352
GeneralReply ==
  /\ pc = "general_reply"
  /\ \E ok \in BOOLEAN :
       /\ log' = Append(log, Call("reply",
                   IF content = "text" THEN GeneralAnswer ELSE GeneralFallback, ok))
       /\ pc' = IF ok THEN "done" ELSE "general_catch_reply"
       /\ ret' = IF ok THEN Ret(200, "OK") ELSE ret
  /\ UNCHANGED <<pvars, rvars, store, req, locals, hist>>

\* lines 353-359
GeneralCatchReply ==
  /\ pc = "general_catch_reply"
  /\ \E ok \in BOOLEAN :
       /\ log' = Append(log, Call("reply", GeneralError, ok))
       /\ ret' = IF ok THEN Ret(200, "OK") ELSE Thrown
  /\ pc' = "done"
  /\ UNCHANGED <<pvars, rvars, store, req, locals, hist>>

\* ------------------------------------------------------------ environment
\* The invocation has ended; the next event of the user can be delivered.
Return ==
  /\ pc = "done"
  /\ pc' = "idle"
  /\ req' = NoRequest
  /\ st' = NoState
  /\ val' = Undefined
  /\ dat' = EmptyData
  /\ nrec' = 0
  /\ idx' = 0
  /\ content' = "none"
  /\ ret' = Pending
  /\ log' = <<>>
  /\ solo' = TRUE
  /\ turn0' = NoItem
  /\ whole' = FALSE
  /\ serial' = (serial /\ \A k \in 1..Len(log) : log[k].ok)
  /\ UNCHANGED <<pvars, rvars, store>>

\* The awaited calls up to an invocation's last access to the store; every
\* path of handler reads and writes the store only before its first reply,
\* generation call or push.
StorePhase ==
  { "follow_saveUserId", "saveUserId", "getState", "putState", "getStateDataKey",
    "putStateWithData", "getStateData", "clearState" }

\* What getStateData(uid, key) can return to an invocation.
ReadValues == Texts \cup {Undefined, EmptyObj}

\* The items another invocation of handler for the same user can write with
\* one of its store calls.
OtherWrites(rec) ==
  {saveUserId(rec), clearState(rec)}
    \cup {putState(rec, FirstState(t)) : t \in Triggers}
    \cup { putStateWithData(rec, NextState(s), NewData(s, v, t)) :
             s \in NonFinalStates, v \in ReadValues, t \in Texts }

\* Invocations for the same user are not serialized (Lambda runs them
\* concurrently): a store write of another invocation lands between two
\* awaited calls of this one, or while it is idle.  Writes that land after
\* this invocation's last store access are the same to it as writes after it
\* has returned, and are taken then.
OtherInvocationWrites ==
  /\ pc \in StorePhase \cup {"idle"}
  /\ store' \in OtherWrites(store)
  /\ solo' = (pc = "idle")
  /\ serial' = FALSE
  /\ turn0' = NoItem
  /\ UNCHANGED <<pvars, rvars, pc, req, locals, ret, log, whole>>

Next ==
  \/ Invoke
  \/ FollowSaveUserId
  \/ FollowReply
  \/ SaveUserId
  \/ GetState
  \/ PutState
  \/ MenuReply
  \/ GetStateDataKey
  \/ PutStateWithData
  \/ StateReply
  \/ GetStateData
  \/ ClearState
  \/ AckReply
  \/ Generate
  \/ ZeroPush
  \/ FoundPush
  \/ FlexPush
  \/ DetailGenerate
  \/ DetailPush
  \/ ListPush
  \/ ItemGenerate
  \/ ItemPush
  \/ CatchPush
  \/ GeneralGenerate
  \/ GeneralReply
  \/ GeneralCatchReply
  \/ Return
  \/ OtherInvocationWrites

Spec == Init /\ [][Next]_vars

\* ------------------------------------- the parsers and composers by themselves
\* The generation service's completion arrives: line by line, each line with
\* a leading "N." or none and with a ':' or none ...
CompletionLine ==
  /\ fn = "none"
  /\ Len(lines) < MaxLines
  /\ \A k \in 1..Len(lines) : lines[k].label = "none" /\ lines[k].id = k
  /\ \E n \in 0..MaxBlocks, c \in BOOLEAN :
       lines' = Append(lines, Line(n, "none", c, Len(lines) + 1))
  /\ UNCHANGED <<hvars, rvars, fn, recs, card, flexCamp, flexYaychi>>

\* ... or block by block in the bivouac format.
CompletionBlock ==
  /\ fn = "none"
  /\ \E k \in 0..(MaxYaychiBlocks - 1) : lines = Blocks(k) /\ lines' = Blocks(k + 1)
  /\ UNCHANGED <<hvars, rvars, fn, recs, card, flexCamp, flexYaychi>>

\* line 205
CampParse ==
  /\ fn = "none"
  /\ recs' = parseResponse(lines)
  /\ fn' = "parseResponse"
  /\ UNCHANGED <<hvars, rvars, lines, card, flexCamp, flexYaychi>>

\* line 266
YaychiParse ==
  /\ fn = "none"
  /\ recs' = parseYaychiResponse(lines)
  /\ fn' = "parseYaychiResponse"
  /\ UNCHANGED <<hvars, rvars, lines, card, flexCamp, flexYaychi>>

\* line 301
ItemParse ==
  /\ fn = "none"
  /\ recs' = parseItemResponse(lines)
  /\ fn' = "parseItemResponse"
  /\ UNCHANGED <<hvars, rvars, lines, card, flexCamp, flexYaychi>>

\* lines 207-213: the camp card is composed of one record or more
CampCompose ==
  /\ fn = "parseResponse"
  /\ Len(recs) /= 0
  /\ card' = createCampFlexMessage(flexCamp, recs).contents
  /\ flexCamp' = createCampFlexMessage(flexCamp, recs).shared
  /\ fn' = "createCampFlexMessage"
  /\ UNCHANGED <<hvars, rvars, lines, recs, flexYaychi>>

\* lines 268-273
YaychiCompose ==
  /\ fn = "parseYaychiResponse"
  /\ Len(recs) /= 0
  /\ card' = createYaychiFlexMessage(flexYaychi, recs).contents
  /\ flexYaychi' = createYaychiFlexMessage(flexYaychi, recs).shared
  /\ fn' = "createYaychiFlexMessage"
  /\ UNCHANGED <<hvars, rvars, lines, recs, flexCamp>>

\* A later invocation in the same process: the imports are as the earlier
\* ones left them.
NextCompletion ==
  /\ fn /= "none"
  /\ lines' = <<>>
  /\ fn' = "none"
  /\ recs' = <<>>
  /\ card' = <<>>
  /\ UNCHANGED <<hvars, rvars, flexCamp, flexYaychi>>

ParseNext ==
  \/ CompletionLine
  \/ CompletionBlock
  \/ CampParse
  \/ YaychiParse
  \/ ItemParse
  \/ CampCompose
  \/ YaychiCompose
  \/ NextCompletion

SpecParse == Init /\ [][ParseNext]_vars

\* ------------------------------------------- invocations that overlap in time
\* Lambda runs the invocations for one user concurrently.  Every path of
\* handler accesses the store only before its first reply, generation call or
\* push (StorePhase), so between two store calls of one invocation any store
\* call of another can run; what an invocation does after its last store
\* call does not touch the store, and the invocation is dropped there.
\* What these steps leave alone: the invocation followed step by step, and
\* the parsers' and composers' variables.
aside == <<pc, req, locals, ret, log, hist, pvars>>
Event1(t) == IF t = Undefined THEN FollowEvent ELSE TextEvent(t)
Arrive(t) == Entry([body |-> TRUE, sig |-> "valid", events |-> <<Event1(t)>>]).pc
\* Invocation x, having read what makes it y, goes on to the call `next`.
Onward(x, y, next) ==
  IF next \in StorePhase THEN (inv (-) One(x)) (+) One([y EXCEPT !.pc = next])
  ELSE inv (-) One(x)

\* lines 36-69: a follow event or a text message of the user is delivered
RaceInvoke ==
  /\ BagCardinality(inv) < NumInvocations
  /\ \E t \in Texts \cup {Undefined} : inv' = inv (+) One(Started(Arrive(t), t))
  /\ UNCHANGED <<store, last, aside>>

\* lines 58, 69
RaceSaveUserId ==
  \E x \in BagToSet(inv) :
    /\ x.pc \in {"follow_saveUserId", "saveUserId"}
    /\ store' = saveUserId(store)
    /\ last' = saveUserId(NoItem)
    /\ inv' = Onward(x, x, IF x.pc = "saveUserId" THEN "getState" ELSE "follow_reply")
    /\ UNCHANGED aside

\* lines 71-109
RaceGetState ==
  \E x \in BagToSet(inv) :
    /\ x.pc = "getState"
    /\ inv' = Onward(x, [x EXCEPT !.st = getState(store)],
                     Route(getState(store), x.text))
    /\ UNCHANGED <<store, last, aside>>

\* lines 77, 85, 93
RacePutState ==
  \E x \in BagToSet(inv) :
    /\ x.pc = "putState"
    /\ store' = putState(store, FirstState(x.text))
    /\ last' = putState(NoItem, FirstState(x.text))
    /\ inv' = Onward(x, x, "menu_reply")
    /\ UNCHANGED aside

\* lines 127, 166
RaceGetStateDataKey ==
  \E x \in BagToSet(inv) :
    /\ x.pc = "getStateDataKey"
    /\ inv' = Onward(x, [x EXCEPT !.val = getStateDataKey(store, KeyRead(x.st))],
                     "putStateWithData")
    /\ UNCHANGED <<store, last, aside>>

\* lines 119, 128, 143, 158, 167
RacePutStateWithData ==
  \E x \in BagToSet(inv) :
    /\ x.pc = "putStateWithData"
    /\ store' = putStateWithData(store, NextState(x.st), NewData(x.st, x.val, x.text))
    /\ last' = putStateWithData(NoItem, NextState(x.st), NewData(x.st, x.val, x.text))
    /\ inv' = Onward(x, x, "state_reply")
    /\ UNCHANGED aside

\* lines 136, 151, 175
RaceGetStateData ==
  \E x \in BagToSet(inv) :
    /\ x.pc = "getStateData"
    /\ inv' = Onward(x, x, "clearState")
    /\ UNCHANGED <<store, last, aside>>

\* lines 137, 152, 176, 181
RaceClearState ==
  \E x \in BagToSet(inv) :
    /\ x.pc = "clearState"
    /\ store' = clearState(store)
    /\ last' = clearState(NoItem)
    /\ inv' = Onward(x, x, IF x.st \in FinalStates THEN "ack_reply" ELSE "general_generate")
    /\ UNCHANGED aside

RaceNext ==
  \/ RaceInvoke
  \/ RaceSaveUserId
  \/ RaceGetState
  \/ RacePutState
  \/ RaceGetStateDataKey
  \/ RacePutStateWithData
  \/ RaceGetStateData
  \/ RaceClearState

SpecRace == Init /\ [][RaceNext]_vars

\* ============================================================== properties
\* Vocabulary of the properties below.
Sel(op) == SelectSeq(log, LAMBDA c : c.op = op)
Kinds(op) == {c.arg.kind : c \in {log[k] : k \in {j \in 1..Len(log) : log[j].op = op}}}
Count(op) == Len(Sel(op))
StateWriteOps == {"putState", "putStateWithData", "clearState"}
StateWriteAt == {k \in 1..Len(log) : log[k].op \in StateWriteOps}
Failed == \E k \in 1..Len(log) : ~log[k].ok
Done == pc = "done"
FollowTurn == pc /= "idle" /\ Entry(req).pc = "follow_saveUserId"
TextTurn == pc /= "idle" /\ Entry(req).pc = "saveUserId"
\* getState has returned in this text turn, so `state` is known.
StateKnown == TextTurn /\ Count("getState") = 1
StateOf(rec) == IF rec.item THEN rec.state ELSE "undefined"
DataOf(rec, key) ==
  IF rec.item /\ rec.hasData /\ key \in DOMAIN rec.data THEN rec.data[key] ELSE Undefined
Cleared(rec) == rec.item /\ rec.state = "undefined" /\ ~rec.hasData
Replied(kind) == \E k \in 1..Len(log) : log[k].op = "reply" /\ log[k].arg.kind = kind

\* C1: for one user handled one invocation at a time, from a record with no
\* state: the camp trigger leaves awaiting_region_camp and replies the region
\* prompt; the next text T1 leaves awaiting_date_camp with data.region = T1 and
\* replies the date prompt; the next text T2 leaves awaiting_conditions_camp
\* with region = T1, date = T2 and replies the conditions prompt; the next text
\* T3 clears the state and runs the camp action with (T1, T2, T3).
C1_CampScenario ==
  (Done /\ serial /\ TextTurn /\ ~Failed) =>
    /\ (StateOf(turn0) = "undefined" /\ text = TriggerCamp) =>
         /\ StateOf(store) = "awaiting_region_camp"
         /\ Replied("prompt_region")
    /\ StateOf(turn0) = "awaiting_region_camp" =>
         /\ StateOf(store) = "awaiting_date_camp"
         /\ DataOf(store, "region") = text
         /\ Replied("prompt_date")
    /\ StateOf(turn0) = "awaiting_date_camp" =>
         /\ StateOf(store) = "awaiting_conditions_camp"
         /\ DataOf(store, "region") = DataOf(turn0, "region")
         /\ DataOf(store, "date") = text
         /\ Replied("prompt_conditions_camp")
    /\ StateOf(turn0) = "awaiting_conditions_camp" =>
         /\ Cleared(store)
         /\ \E k \in 1..Len(log) :
              /\ log[k].op = "reply"
              /\ log[k].arg.kind = "ack_camp"
              /\ log[k].arg.args = <<DataOf(turn0, "region"), DataOf(turn0, "date"), text>>

\* C2: handling a follow event records the user id, sends the welcome reply,
\* and leaves the user's stored state and data exactly as they were before.
C2_FollowKeepsState ==
  (Done /\ serial /\ FollowTurn /\ ~Failed) =>
    /\ Count("saveUserId") = 1
    /\ Replied("welcome")
    /\ StateOf(store) = StateOf(turn0)
    /\ \A f \in Fields : DataOf(store, f) = DataOf(turn0, f)
    /\ store.hasData = turn0.hasData

\* The field a non-final waiting state asks the user for, the state that
\* follows it and that state's prompt, as the claims name them.
FieldOwed(s) ==
  CASE s = "awaiting_region_camp" -> "region"
    [] s = "awaiting_date_camp" -> "date"
    [] s = "awaiting_prefecture_yaychi" -> "prefecture"
    [] s = "awaiting_location_items" -> "location"
    [] s = "awaiting_duration_items" -> "duration"
EarlierFields(s) ==
  CASE s = "awaiting_date_camp" -> {"region"}
    [] s = "awaiting_duration_items" -> {"location"}
    [] OTHER -> {}
Following(s) ==
  CASE s = "awaiting_region_camp" -> "awaiting_date_camp"
    [] s = "awaiting_date_camp" -> "awaiting_conditions_camp"
    [] s = "awaiting_prefecture_yaychi" -> "awaiting_conditions_yaychi"
    [] s = "awaiting_location_items" -> "awaiting_duration_items"
    [] s = "awaiting_duration_items" -> "awaiting_conditions_items"
PromptKind(s) ==
  CASE s = "awaiting_region_camp" -> "prompt_region"
    [] s = "awaiting_date_camp" -> "prompt_date"
    [] s = "awaiting_conditions_camp" -> "prompt_conditions_camp"
    [] s = "awaiting_prefecture_yaychi" -> "prompt_prefecture"
    [] s = "awaiting_conditions_yaychi" -> "prompt_conditions_yaychi"
    [] s = "awaiting_location_items" -> "prompt_location"
    [] s = "awaiting_duration_items" -> "prompt_duration"
    [] s = "awaiting_conditions_items" -> "prompt_conditions_items"
FiveNonFinal ==
  { "awaiting_region_camp", "awaiting_date_camp", "awaiting_prefecture_yaychi",
    "awaiting_location_items", "awaiting_duration_items" }
ThreeFinal ==
  {"awaiting_conditions_camp", "awaiting_conditions_yaychi", "awaiting_conditions_items"}

AckKind(s) ==
  CASE s = "awaiting_conditions_camp" -> "ack_camp"
    [] s = "awaiting_conditions_yaychi" -> "ack_yaychi"
    [] s = "awaiting_conditions_items" -> "ack_items"
FlowSize(s) == IF s = "awaiting_conditions_yaychi" THEN 2 ELSE 3
C4_TerminalComplete ==
  (StateKnown /\ st \in ThreeFinal /\ whole) =>
    /\ Count("putState") = 0 /\ Count("putStateWithData") = 0
    /\ \A k \in 1..Len(log) : log[k].op = "clearState" => Cleared(log[k].arg)
    /\ \A k \in 1..Len(log) : log[k].op = "reply" =>
         /\ log[k].arg.kind = AckKind(st)
         /\ \E j \in 1..(k - 1) : log[j].op = "clearState"
         /\ Len(log[k].arg.args) = FlowSize(st)
         /\ \A a \in 1..Len(log[k].arg.args) : log[k].arg.args[a] \in Texts
         /\ log[k].arg.args[Len(log[k].arg.args)] = text
    /\ Done => Count("reply") = 1

TriggerState(t) ==
  CASE t = TriggerCamp -> "awaiting_region_camp"
    [] t = TriggerYaychi -> "awaiting_prefecture_yaychi"
    [] t = TriggerItems -> "awaiting_location_items"
Ops == [k \in 1..Len(log) |-> log[k].op]

\* C5: with no active state, a trigger phrase stores exactly its flow's first
\* waiting state and no data, replies with that state's prompt and makes no
\* generation call (nor push); the item after the turn is that state alone.
C5_TriggerStartsFlow ==
  (StateKnown /\ st = "undefined" /\ text \in {TriggerCamp, TriggerYaychi, TriggerItems}) =>
    /\ Count("generate") = 0 /\ Count("push") = 0
    /\ Count("putStateWithData") = 0 /\ Count("clearState") = 0
    /\ Count("putState") <= 1 /\ Count("reply") <= 1
    /\ \A k \in 1..Len(log) : log[k].op = "putState" =>
         /\ StateOf(log[k].arg) = TriggerState(text)
         /\ ~log[k].arg.hasData
    /\ \A k \in 1..Len(log) : log[k].op = "reply" =>
         log[k].arg.kind = PromptKind(TriggerState(text))
    /\ Done => Ops = <<"saveUserId", "getState", "putState", "reply">>
    /\ (Done /\ ~Failed) => ret = Ret(200, "OK")
    /\ (Done /\ solo) => StateOf(store) = TriggerState(text) /\ ~store.hasData

C5_Witness ==
  /\ Done /\ solo /\ StateKnown /\ st = "undefined" /\ text = TriggerItems
  /\ StateOf(store) = "awaiting_location_items" /\ ~store.hasData
  /\ Replied("prompt_location") /\ ret = Ret(200, "OK")

\* C6: with no active state, a text that is no trigger phrase runs the general
\* action: one generation call, whose result or a fixed fallback is sent as
\* the reply to the event, no push, and no state and no data in the item after
\* the turn.
C6_GeneralMessage ==
  (StateKnown /\ st = "undefined" /\ text \notin {TriggerCamp, TriggerYaychi, TriggerItems}) =>
    /\ Count("push") = 0
    /\ Count("putState") = 0 /\ Count("putStateWithData") = 0 /\ Count("clearState") = 0
    /\ Count("generate") <= 1
    /\ \A k \in 1..Len(log) : log[k].op = "generate" => log[k].arg.args = <<text>>
    /\ \A k \in 1..Len(log) : log[k].op = "reply" =>
         /\ \E j \in 1..(k - 1) : log[j].op = "generate"
         /\ log[k].arg.kind \in {"general_answer", "general_fallback", "general_error"}
         /\ log[k].arg.kind /= "general_error" => log[k - 1].op = "generate" /\ log[k - 1].ok
    /\ Done => Count("generate") = 1 /\ Count("reply") >= 1
    /\ (Done /\ ~Failed) =>
         /\ Ops = <<"saveUserId", "getState", "generate", "reply">>
         /\ ret = Ret(200, "OK")
    /\ (Done /\ solo) => Cleared(store)

C6_Witness ==
  /\ Done /\ solo /\ StateKnown /\ st = "undefined" /\ text \notin Triggers
  /\ ~Failed /\ Replied("general_fallback") /\ Cleared(store)

\* C7: in every turn that changes or clears the stored conversation state, the
\* store write (putState, putStateWithData or clearState) has been issued
\* before any reply of the turn; in a follow turn saveUserId has.
C7_WriteBeforeReply ==
  /\ (StateKnown /\ (st /= "undefined" \/ text \in {TriggerCamp, TriggerYaychi, TriggerItems})) =>
       \A k \in 1..Len(log) : log[k].op = "reply" =>
         \E j \in 1..(k - 1) : log[j].op \in {"putState", "putStateWithData", "clearState"}
  /\ FollowTurn =>
       \A k \in 1..Len(log) : log[k].op = "reply" =>
         \E j \in 1..(k - 1) : log[j].op = "saveUserId"

\* A turn that stopped between the write and the reply: the reply call failed,
\* the stored state is advanced and no reply was sent.
C7_Witness ==
  /\ Done /\ ret = Thrown /\ StateKnown /\ st = "awaiting_region_camp"
  /\ StateOf(store) = "awaiting_date_camp"
  /\ Count("reply") = 1 /\ \A k \in 1..Len(log) : log[k].op = "reply" => ~log[k].ok

\* C8: in each terminal action a failure of any generation call or delivery
\* call (the acknowledgment reply or any push) is caught inside the action,
\* results in exactly one pushed apology, and never reaches handler, which
\* still returns 200.
ErrKinds == {"error_camp", "error_yaychi", "error_items"}
ErrPushes == {k \in 1..Len(log) : log[k].op = "push" /\ log[k].arg.kind \in ErrKinds}
ActionFailed ==
  \E k \in 1..Len(log) : ~log[k].ok /\ log[k].op \in {"generate", "reply", "push"}
C8_FailuresCaught ==
  (Done /\ StateKnown /\ st \in ThreeFinal /\ ActionFailed) =>
    /\ ret = Ret(200, "OK")
    /\ Cardinality(ErrPushes) = 1

\* C9: when the parser returns zero records, the terminal action pushes the
\* fixed zero-records apology once and stops: no card, no result text and no
\* further generation call follow; the only other push there can be is the
\* catch block's apology, when the push of the first one failed.
ZeroKinds == {"zero_camp", "zero_yaychi", "zero_items"}
ZeroPushes == {k \in 1..Len(log) : log[k].op = "push" /\ log[k].arg.kind \in ZeroKinds}
ParsedZero ==
  /\ StateKnown /\ st \in ThreeFinal /\ nrec = 0
  /\ \E k \in 1..Len(log) : log[k].op = "generate" /\ log[k].ok
C10_BadSignature401 ==
  (pc /= "idle" /\ req.sig /= "valid") =>
    /\ Done /\ ret.statusCode = 401
    /\ log = <<>>

\* C10, amended: an invocation whose signature header is missing or does not
\* validate performs no side effect (no store access, reply, push or generation
\* call) and is rejected with status 401 when it has a body; without a body it
\* returns 200 "no body" before the signature is looked at.
C10_BadSignatureRejected ==
  (pc /= "idle" /\ req.sig /= "valid") =>
    /\ Done /\ log = <<>>
    /\ req.body => ret = Ret(401, "signature validation failed")
    /\ ~req.body => ret = Ret(200, "no body")
    /\ serial => store = turn0

C10_Witness ==
  /\ Done /\ req.body /\ req.sig = "invalid" /\ Len(req.events) = MaxEvents
  /\ req.events[1].type = "message" /\ ret.statusCode = 401 /\ log = <<>>

\* C11: of a batch of n >= 1 events one invocation handles the first only:
\* the store is written for one event, every call is the one events[0] calls
\* for (its kind, its text), and a batch whose first event is neither a follow
\* nor a text message is ignored whatever follows it.
First == req.events[1]
Accepted == pc /= "idle" /\ req.body /\ req.sig = "valid" /\ Len(req.events) >= 1
C11_FirstEventOnly ==
  Accepted =>
    /\ Count("saveUserId") <= 1 /\ Count("getState") <= 1
    /\ First.type = "follow" =>
         /\ \A k \in 1..Len(log) : log[k].op \in {"saveUserId", "reply"}
         /\ \A k \in 1..Len(log) : log[k].op = "reply" => log[k].arg = Welcome
         /\ Count("reply") <= 1
    /\ (First.type = "message" /\ First.mtype = "text") =>
         /\ ~Replied("welcome")
         /\ log /= <<>> => log[1].op = "saveUserId"
         /\ \A k \in 1..Len(log) :
              /\ log[k].op = "putState" => StateOf(log[k].arg) = TriggerState(First.text)
              /\ log[k].op = "putStateWithData" =>
                   DataOf(log[k].arg, FieldOwed(st)) = First.text
              /\ (log[k].op \in {"generate", "reply"}
                    /\ log[k].arg.kind \in {"query_general", "query_camp", "query_yaychi",
                                            "query_items", "ack_camp", "ack_yaychi",
                                            "ack_items"}) =>
                   log[k].arg.args[Len(log[k].arg.args)] = First.text
         /\ (Count("getState") = 1 /\ st = "undefined" /\ First.text \notin Triggers) =>
              Count("putState") = 0
    /\ (First.type \notin {"follow", "message"} \/ First.mtype \notin {"text", "none"}) =>
         Done /\ log = <<>> /\ ret = Ret(200, "ignored")

C11_Witness ==
  /\ Done /\ Accepted /\ Len(req.events) = 2
  /\ First = TextEvent(Str(4)) /\ req.events[2] = FollowEvent
  /\ Ops = <<"saveUserId", "getState", "generate", "reply">>
  /\ ~Failed /\ ret = Ret(200, "OK")

\* C12: on every path through handler at most one reply call is issued with
\* the event's reply token.
C12_ReplyTokenOnce == Count("reply") <= 1

\* C14: clearState leaves the item as the user id only whatever it held: after
\* it getState returns undefined and getStateData the empty object, and
\* clearing a clear item gives the same item.
C14_ClearStateClears ==
  /\ getState(clearState(store)) = NoState
  /\ getStateData(clearState(store)) = EmptyData
  /\ getStateDataKey(clearState(store), "region") = EmptyObj
  /\ clearState(store) = UserIdOnly
  /\ clearState(clearState(store)) = clearState(store)
  /\ \A k \in 1..Len(log) : log[k].op = "clearState" => log[k].arg = UserIdOnly
  /\ (log /= <<>> /\ log[Len(log)].op = "clearState" /\ solo) => store = UserIdOnly

\* The item held a state and data {region: X, date: Y} when clearState ran.
C14_Witness ==
  /\ pc = "ack_reply" /\ log[Len(log)].op = "clearState"
  /\ st = "awaiting_conditions_camp" /\ whole
  /\ Prop(dat, "region") \in Texts /\ Prop(dat, "date") \in Texts
  /\ store = UserIdOnly /\ getState(store) = NoState /\ getStateData(store) = EmptyData

\* C18: in one run of handleItemSuggestion with n parsed items the per-item
\* generation calls are made for items 1, 2, ... in order, each one right
\* after the push before it succeeded (the list, then the previous item's
\* result), and there are min(n, 3) of them when no call fails.
ItemGenerates ==
  {k \in 1..Len(log) : log[k].op = "generate" /\ log[k].arg.kind = "query_item"}
ItemRun == StateKnown /\ st = "awaiting_conditions_items" /\ Count("generate") >= 1
C18_ItemLoop ==
  ItemRun =>
    /\ Cardinality(ItemGenerates) <= Min(nrec, 3)
    /\ \A k \in ItemGenerates :
         LET j == Cardinality({i \in ItemGenerates : i <= k})
         IN /\ log[k].arg.args = <<Num(j)>>
            /\ log[k - 1].op = "push" /\ log[k - 1].ok
            /\ log[k - 1].arg = IF j = 1 THEN ItemList(nrec) ELSE ItemResult(j - 1)
            /\ j > 1 => k - 2 \in ItemGenerates
    /\ \A k \in 1..Len(log) :
         (log[k].op = "push" /\ log[k].arg.kind = "item_result") =>
           k - 1 \in ItemGenerates /\ log[k - 1].ok
             /\ log[k].arg.args = log[k - 1].arg.args
    /\ (Done /\ ~Failed) => Cardinality(ItemGenerates) = Min(nrec, 3)

C18_Witness ==
  /\ ItemRun /\ Done /\ ~Failed /\ nrec = 4
  /\ Cardinality(ItemGenerates) = 3 /\ ret = Ret(200, "OK")

\* C15 as stated: each of the three parsers returns at most 3 records for
\* every input text.
Parsers == {"parseResponse", "parseYaychiResponse", "parseItemResponse"}
C15_AtMostThree == fn \in Parsers => Len(recs) <= 3

\* C15, amended: parseYaychiResponse returns at most 3 records for every input;
\* parseResponse returns one record for each line that begins with "1.", "2."
\* or "3.", so more than 3 when such a prefix occurs again; parseItemResponse
\* returns one record for each numbered line that has a ':', without a cap.
C15_ParserCaps ==
  /\ fn = "parseYaychiResponse" => Len(recs) <= 3
  /\ fn = "parseResponse" =>
       Len(recs) = Cardinality({k \in 1..Len(lines) : lines[k].num \in {1, 2, 3}})
  /\ fn = "parseItemResponse" =>
       Len(recs) = Cardinality({k \in 1..Len(lines) : lines[k].num > 0 /\ lines[k].colon})

C15_Witness ==
  /\ fn = "parseYaychiResponse" /\ Len(lines) = 4 /\ Len(recs) = 3
  /\ \A k \in 1..Len(lines) : lines[k].num \in {1, 2, 3}

\* C16: of k blocks numbered 1..k (k up to 5), each a numbered line with its
\* own spot line and description line, parseYaychiResponse returns min(k, 3)
\* records in input order, record i with the name, spot and description of
\* block i.
C16_YaychiBlocks ==
  \A k \in 0..MaxYaychiBlocks :
    (fn = "parseYaychiResponse" /\ lines = Blocks(k)) =>
      /\ Len(recs) = Min(k, 3)
      /\ \A i \in 1..Len(recs) :
           recs[i] = [name |-> Block(i)[1].id, spot |-> Block(i)[2].id,
                      description |-> Block(i)[3].id]

\* C17: a composer returns the template's b bubbles, bubbles 1..min(r, b) with
\* the designated texts of records 1..min(r, b), the bubbles after them as the
\* template has them, the records beyond b dropped; the imported templates are
\* never changed.
C17_Composers ==
  /\ flexCamp = CampTemplate /\ flexYaychi = YaychiTemplate
  /\ fn = "createCampFlexMessage" =>
       /\ Len(card) = NumBubbles
       /\ \A i \in 1..NumBubbles :
            card[i] = IF i <= Len(recs)
                      THEN [text |-> recs[i].name, uri |-> Placeholder(i)]
                      ELSE CampTemplate[i]
  /\ fn = "createYaychiFlexMessage" =>
       /\ Len(card) = NumBubbles
       /\ \A i \in 1..NumBubbles :
            card[i] = IF i <= Len(recs)
                      THEN [text |-> recs[i].name, spot |-> recs[i].spot,
                            description |-> recs[i].description]
                      ELSE YaychiTemplate[i]

\* One record, two bubbles or more: the first is written, the second is not.
C17_Witness ==
  /\ fn = "createYaychiFlexMessage" /\ lines = Blocks(1) /\ Len(recs) = 1
  /\ card[1] = [text |-> 11, spot |-> 12, description |-> 13]
  /\ card[2] = YaychiTemplate[2] /\ flexYaychi = YaychiTemplate

\* C13: invocations for one user are not serialized and the last writer wins:
\* under every interleaving of their store calls the item in the store is the
\* whole item the store write executed last has put, with no attribute of an
\* earlier write left in it.
C13_LastWriterWins == store = last

\* Two invocations between their store calls, a third one's write in the store.
C13_Witness ==
  /\ store = last /\ getState(store) = "awaiting_date_camp"
  /\ DataOf(store, "region") \in Texts
  /\ \E x \in BagToSet(inv) : x.pc = "putState"
  /\ \E x \in BagToSet(inv) : x.pc = "putStateWithData" /\ x.st = "awaiting_date_camp"

\* C19: whatever the invocations and their interleaving, the stored state is
\* absent or one of the eight waiting states, no invocation has read another,
\* and handleStateMessage never takes its default branch (clearState without
\* a final state read).
C19_WaitingStatesOnly ==
  /\ getState(store) \in WaitingStates \cup {NoState}
  /\ \A x \in BagToSet(inv) :
       /\ x.st \in WaitingStates \cup {NoState}
       /\ x.pc = "clearState" => x.st \in FinalStates
       /\ x.pc \in {"getStateDataKey", "putStateWithData", "getStateData"} =>
            x.st \in WaitingStates

C19_Witness ==
  /\ getState(store) = "awaiting_conditions_items"
  /\ \E x \in BagToSet(inv) : x.pc = "clearState" /\ x.st = "awaiting_conditions_yaychi"

\* C20: in every reachable state of the store, interleaved invocations
\* included, the stored data has every field the earlier steps of the stored
\* state's flow owe.
C20_DataComplete ==
  \A f \in Collected(getState(store)) : DataOf(store, f) /= Undefined

====
